---------------------------- MODULE Spec2Model ----------------------------
(***************************************************************************)
(* The OAuth / session core of the order-wizard server                     *)
(* (apps/server/src/oauth.rs and apps/server/src/routes/auth.rs).          *)
(*                                                                         *)
(* Time is the wall clock (Utc::now) counted in whole minutes.  The two    *)
(* stores are the HashMaps behind the two RwLocks of OAuthState; every     *)
(* store operation holds its lock for its whole body, so it is one atomic  *)
(* step.  An HTTP handler is a process whose steps are separated by its    *)
(* await points (the store operations and the calls to the provider).      *)
(*                                                                         *)
(* Option<T> is modelled as a set: None is {} and Some(x) is {x}.          *)
(*                                                                         *)
(* The history variables (attempt, took, created, abandoned, afterAbandon)  *)
(* record what happened; the program never reads them.  Every action ends  *)
(* with Record, which writes the history that `observe` selects; each      *)
(* specification runs the same program and selects the history its claims  *)
(* need.                                                                   *)
(*                                                                         *)
(* The order endpoints (routes/orders.rs) read the session store and the   *)
(* clock and write the orders collection; SpecOrders runs them over the    *)
(* sessions two logins leave behind.  SpecGuards follows the guards of the *)
(* two locks: there a store operation is the step that ends with the drop  *)
(* of its guard, and taking the guard is a step before it.  SpecLive adds  *)
(* the fairness of the clock and of the cleanup task.                      *)
(* SpecIdentity applies extract_identity, which has no self, to profiles   *)
(* on its own, and SpecCookie the two cookie builders to session           *)
(* configurations; call and ret hold the argument and the returned value.  *)
(* SpecGuardsLive is SpecGuards with the clock standing still and the      *)
(* fairness of the tokio scheduler and of its RwLock.  SpecJwks runs       *)
(* JwksVerifier::get_key (apps/server/src/auth/mod.rs) on its own: calls   *)
(* beside each other over the cache, the provider and a monotonic clock.   *)
(***************************************************************************)
EXTENDS Integers, Sequences, FiniteSets, TLC

\* ------------------------------------------------------------------ bounds

\* Number of clock advances explored.
MaxTicks == 2
\* Minutes by which one clock advance moves the wall clock.
TickMinutes == 10
\* Number of authorization URLs built (start_login calls) explored.
MaxLogins == 2
\* Number of sessions created explored.
MaxSessions == 2

\* -------------------------------------------------------- program constants

\* ChronoDuration::minutes(10): the age past which a pending entry is stale.
PendingMaxAgeMinutes == 10

\* ------------------------------------------------------------------ values

None == {}
Some(x) == {x}

\* The CSRF states (CsrfToken::new_random) that occur.
States == {"s1", "s2"}
\* The in-flight HTTP requests.
Requests == {"r1", "r2"}

\* serde_json::Value: a tagged value; an object is a set of <<key, value>> pairs.
JNull == [t |-> "null", v |-> {}]
JStr(s) == [t |-> "str", v |-> s]
JNum(n) == [t |-> "num", v |-> n]
JObj(pairs) == [t |-> "obj", v |-> pairs]

\* Value::get(key): the member of an object, None for anything else.
JGet(value, key) ==
    IF value.t = "obj"
    THEN {p[2] : p \in {q \in value.v : q[1] = key}}
    ELSE None

\* Value::pointer("/user/id").
JPointerUserId(value) ==
    IF JGet(value, "user") = None
    THEN None
    ELSE JGet(CHOOSE u \in JGet(value, "user") : TRUE, "id")

\* Option::or_else.
OrElse(first, second) == IF first # None THEN first ELSE second

\* Value::as_str mapped over an Option<&Value>.
AsStr(opt) == {x.v : x \in {y \in opt : y.t = "str"}}

\* The match of extract_identity: a string is cloned, a number is printed.
IdText(opt) ==
    {IF x.t = "str" THEN x.v ELSE ToString(x.v) : x \in {y \in opt : y.t \in {"str", "num"}}}

\* OAuthState::extract_identity: Option<OAuthUser>.
extract_identity(profile) ==
    IF profile.t = "null"
    THEN None
    ELSE LET id == IdText(OrElse(JGet(profile, "sub"),
                                 OrElse(JGet(profile, "id"), JPointerUserId(profile))))
             email == AsStr(JGet(profile, "email"))
             name == AsStr(OrElse(JGet(profile, "name"),
                                  OrElse(JGet(profile, "preferred_username"),
                                         JGet(profile, "login"))))
         IN  {[id |-> i, name |-> name, email |-> email] : i \in id}

\* The userinfo documents the provider answers with.
Profiles ==
    { JObj({<<"id", JNum(42)>>, <<"email", JStr("a@b.com")>>, <<"name", JStr("A")>>}),
      JObj({}) }

\* A member of a JSON object left out, or present with one of `values`.
Member(key, values) == {{}} \cup {{<<key, value>>} : value \in values}

\* The JSON documents extract_identity is applied to on its own: null, and every
\* object made of these members.
IdentityProfiles ==
    {JNull} \cup
    {JObj(sub \cup id \cup user \cup email \cup name \cup preferred \cup login) :
        sub \in Member("sub", {JStr("abc123"), JNum(7), JNull}),
        id \in Member("id", {JStr("u2"), JNum(42), JNull}),
        user \in Member("user", {JObj({<<"id", JStr("u3")>>}), JObj({<<"id", JNum(9)>>}),
                                 JObj({}), JStr("u4")}),
        email \in Member("email", {JStr("a@b.com"), JNum(1)}),
        name \in Member("name", {JStr("A"), JNum(5)}),
        preferred \in Member("preferred_username", {JStr("pu")}),
        login \in Member("login", {JStr("lg")})}

\* The expires_in of a token response: absent, or one clock advance.
ExpiresIns == {None, Some(TickMinutes)}

\* ------------------------------------------------------------------- state

VARIABLES
    now,                \* Utc::now(), in minutes
    failure_redirect,   \* OAuthState.failure_redirect: Option<String>
    pending,            \* OAuthState.pending: state -> PendingAuth
    sessions,           \* OAuthState.sessions: session id -> AuthSession
    issued,             \* verifier/nonce pairs generated so far
    nextSid,            \* session ids generated so far
    cleanupPc,          \* position of the cleanup task inside cleanup_expired
    orders,             \* AppState.orders: the documents of the orders collection
    holds,              \* holds[l]: the guards of RwLock l that are alive
    pc,                 \* pc[r]: position of request r in its handler
    req,                \* req[r]: the handler's inputs and locals
    resp,               \* resp[r]: the response of a finished request
    attempt,            \* history: attempt[s], the login attempt last stored under s
    took,               \* history: took[r], what r's take_pending met and returned
    created,            \* history: the sessions created and not removed by remove_session
    abandoned,          \* history: an error callback carried s while s was pending
    afterAbandon,       \* history: r's callback arrived after such an error callback
    yielded,            \* history: yielded[s], the logins stored and the sessions created under s
    observe,            \* which history is recorded
    call,               \* a function called on its own: its name and argument
    ret,                \* what that call returned
    cache,              \* JwksVerifier.cache: Option<JwksCache>
    instant,            \* std::time::Instant::now(), in seconds
    getKey              \* getKey[v]: position and locals of call v of get_key

storeVars == <<pending, issued>>
sessionVars == <<sessions, nextSid>>
reqVars == <<pc, req, resp>>
progVars == <<now, failure_redirect, orders, holds, storeVars, sessionVars, cleanupPc, reqVars>>
takeVars == <<attempt, took>>
createdVars == <<created>>
abandonVars == <<abandoned, afterAbandon>>
yieldVars == <<yielded>>
histVars == <<takeVars, createdVars, abandonVars, yieldVars>>
callVars == <<call, ret>>
jwksVars == <<cache, instant, getKey>>
vars == <<progVars, histVars, observe, callVars, jwksVars>>

\* ------------------------------------------------------------ HashMap

EmptyMap == [k \in {} |-> {}]
MapInsert(m, k, v) == [x \in DOMAIN m \cup {k} |-> IF x = k THEN v ELSE m[x]]
MapRemove(m, k) == [x \in DOMAIN m \ {k} |-> m[x]]
MapGet(m, k) == IF k \in DOMAIN m THEN Some(m[k]) ELSE None
\* HashMap::retain, given the keys whose entries the closure keeps.
MapRetain(m, kept) == [x \in kept \cap DOMAIN m |-> m[x]]

\* ------------------------------------------------------ Pending-Auth store

\* store_pending with entry(state).or_insert(..): an entry already there stays.
store_pending_keep_existing(map, state, verifier, nonce, t) ==
    IF state \in DOMAIN map
    THEN map
    ELSE MapInsert(map, state, [verifier |-> verifier, nonce |-> nonce, created_at |-> t])

\* start_login without its store_pending call.
store_pending_skipped(map, state, verifier, nonce, t) == map
\* OAuthState::store_pending: the map after the insert.
store_pending(map, state, verifier, nonce, t) ==
    MapInsert(map, state, [verifier |-> verifier, nonce |-> nonce, created_at |-> t])

\* take_pending emptying the map instead of removing one key.
take_pending_map_clear(map, state) == EmptyMap
\* take_pending reading the entry with get instead of remove.
take_pending_map_keep(map, state) == map

\* OAuthState::take_pending: the map after guard.remove(state).
take_pending_map(map, state) == MapRemove(map, state)

\* take_pending rejecting an entry from age 10 minutes on (>= for >).
take_pending_strict(map, state, t) ==
    {<<p.verifier, p.nonce>> :
        p \in {q \in MapGet(map, state) : ~(t - q.created_at >= PendingMaxAgeMinutes)}}

\* take_pending comparing the age with ChronoDuration::hours(10).
take_pending_hours(map, state, t) ==
    {<<p.verifier, p.nonce>> :
        p \in {q \in MapGet(map, state) : ~(t - q.created_at > PendingMaxAgeMinutes * 60)}}

\* take_pending without the age check.
take_pending_no_age_check(map, state, t) ==
    {<<p.verifier, p.nonce>> : p \in MapGet(map, state)}

\* OAuthState::take_pending: the Option<(verifier, nonce)> it returns.
take_pending(map, state, t) ==
    {<<p.verifier, p.nonce>> :
        p \in {q \in MapGet(map, state) : ~(t - q.created_at > PendingMaxAgeMinutes)}}

\* The pending sweep with < in place of <=.
cleanup_pending_strict(map, t) ==
    MapRetain(map, {state \in DOMAIN map :
                       (t - map[state].created_at) < PendingMaxAgeMinutes})

\* The pending sweep removing one stale entry per run instead of all of them.
cleanup_pending_one(map, t) ==
    LET stale == {state \in DOMAIN map :
                     (t - map[state].created_at) > PendingMaxAgeMinutes}
    IN  IF stale = {} THEN map ELSE MapRemove(map, CHOOSE state \in stale : TRUE)
\* The pending half of cleanup_expired: guard.retain(age <= 10 minutes).
cleanup_pending(map, t) ==
    MapRetain(map, {state \in DOMAIN map :
                       (t - map[state].created_at) <= PendingMaxAgeMinutes})

\* ---------------------------------------------------------- Session store

\* create_session: expires_in.and_then(from_std).map(|d| Utc::now() + d).
session_expires_at(expires_in, t) == {t + d : d \in expires_in}

\* A session id generator that returns the same id every time.
new_session_id_fixed(n) == "1"
\* Uuid::new_v4().to_string(): a value never generated before.
new_session_id(n) == ToString(n + 1)

\* create_session keying the map by the user id instead of the session id.
create_session_by_user(map, session_id, user, expires_in, raw_profile, t) ==
    MapInsert(map, user.id,
              [user |-> user,
               expires_at |-> session_expires_at(expires_in, t),
               raw_profile |-> raw_profile])

\* create_session that also gives every session of the map the new expiry.
create_session_touch(map, session_id, user, expires_in, raw_profile, t) ==
    MapInsert([x \in DOMAIN map |->
                  [map[x] EXCEPT !.expires_at = session_expires_at(expires_in, t)]],
              session_id,
              [user |-> user,
               expires_at |-> session_expires_at(expires_in, t),
               raw_profile |-> raw_profile])
\* OAuthState::create_session: the map after the insert.
create_session(map, session_id, user, expires_in, raw_profile, t) ==
    MapInsert(map, session_id,
              [user |-> user,
               expires_at |-> session_expires_at(expires_in, t),
               raw_profile |-> raw_profile])

\* remove_session that leaves the map as it is.
remove_session_keep(map, session_id) == map

\* remove_session that clears the whole map.
remove_session_clear(map, session_id) == EmptyMap

\* OAuthState::remove_session.
remove_session(map, session_id) == MapRemove(map, session_id)

\* session_snapshot with the expiry check of session_user_id.
session_snapshot_unexpired(map, session_id) ==
    {[user |-> s.user, expires_at |-> s.expires_at, profile |-> s.raw_profile] :
        s \in {x \in MapGet(map, session_id) : ~(\E e \in x.expires_at : now > e)}}
\* session_snapshot that leaves the raw profile out.
session_snapshot_no_profile(map, session_id) ==
    {[user |-> s.user, expires_at |-> s.expires_at, profile |-> JNull] :
        s \in MapGet(map, session_id)}
\* OAuthState::session_snapshot: Option<SessionSnapshot>.
session_snapshot(map, session_id) ==
    {[user |-> s.user, expires_at |-> s.expires_at, profile |-> s.raw_profile] :
        s \in MapGet(map, session_id)}

\* session_user_id without the expiry check.
session_user_id_unchecked(map, jar, t) ==
    {s.user.id : s \in UNION {MapGet(map, c) : c \in jar}}

\* OAuthState::session_user_id: jar is the Option of the session cookie's value.
session_user_id(map, jar, t) ==
    {s.user.id :
        s \in {x \in UNION {MapGet(map, c) : c \in jar} :
                  ~(\E e \in x.expires_at : t > e)}}

\* The session sweep with is_some_and in place of is_none_or.
cleanup_sessions_some_and(map, t) ==
    MapRetain(map, {session_id \in DOMAIN map :
                       \E expires \in map[session_id].expires_at : expires > t})

\* The session sweep with the comparison the wrong way round.
cleanup_sessions_inverted(map, t) ==
    MapRetain(map, {session_id \in DOMAIN map :
                       \A expires \in map[session_id].expires_at : expires < t})
\* cleanup_expired without its second block.
cleanup_sessions_skipped(map, t) == map

\* The session half of cleanup_expired: retain(expires_at.is_none_or(> now)).
cleanup_sessions(map, t) ==
    MapRetain(map, {session_id \in DOMAIN map :
                       \A expires \in map[session_id].expires_at : expires > t})

\* ------------------------------------------------------------------ cookies

\* SessionConfig.ttl as AppConfig::from_env leaves it when SESSION_TTL_SECONDS
\* is unset: DEFAULT_SESSION_TTL seconds.
session_ttl == 3600

\* The SessionConfig of AppConfig::from_env when the SESSION_* variables are
\* unset: no cookie domain, Secure on.
session_config == [ttl |-> session_ttl, cookie_domain |-> None, cookie_secure |-> TRUE]

\* The max-age build_cookie falls back to, in seconds.
DEFAULT_SESSION_TTL_SECS == 60 * 60

\* chrono::Duration::to_std: an error (None) for a negative duration.
to_std(ttl) == IF ttl < 0 THEN None ELSE Some(ttl)

\* Option::unwrap_or_else.
unwrap_or(option, default) == IF option = None THEN default ELSE CHOOSE x \in option : TRUE

\* build_cookie passing the configured seconds to max_age as they are.
build_cookie_ttl_as_is(config, session_id) ==
    [value |-> session_id, path |-> "/", http_only |-> TRUE, same_site |-> "Lax",
     max_age |-> config.ttl,
     domain |-> config.cookie_domain,
     secure |-> config.cookie_secure]

\* OAuthState::build_cookie, for the session_ttl, cookie_domain and
\* cookie_secure of self.
build_cookie(config, session_id) ==
    [value |-> session_id, path |-> "/", http_only |-> TRUE, same_site |-> "Lax",
     max_age |-> unwrap_or(to_std(config.ttl), DEFAULT_SESSION_TTL_SECS),
     domain |-> config.cookie_domain,
     secure |-> config.cookie_secure]

\* OAuthState::build_logout_cookie.
build_logout_cookie(config) ==
    [value |-> "", path |-> "/", http_only |-> TRUE, same_site |-> "Lax", max_age |-> 0,
     domain |-> config.cookie_domain,
     secure |-> config.cookie_secure]

\* ---------------------------------------------------------------- responses

\* ApiError::Auth(msg), ApiError::Http(msg), ApiError::Unauthorized.
ApiError(kind, msg) == [kind |-> kind, msg |-> msg]

\* ApiError::into_response: the status of each kind, and the error as the body.
ApiErrorStatus(kind) ==
    CASE kind = "NotFound" -> 404
      [] kind \in {"Database", "Http"} -> 500
      [] kind = "Unauthorized" -> 401
      [] kind \in {"Auth", "Validation"} -> 400

ErrorResponse(error) ==
    [status |-> ApiErrorStatus(error.kind), location |-> None, set_cookie |-> None,
     error |-> Some(error), body |-> None]

\* Redirect::temporary(target), with an optional Set-Cookie header.
RedirectTemporary(target, cookie) ==
    [status |-> 307, location |-> Some(target), set_cookie |-> cookie,
     error |-> None, body |-> None]

\* StatusCode::NO_CONTENT, with an optional Set-Cookie header.
NoContent(cookie) ==
    [status |-> 204, location |-> None, set_cookie |-> cookie, error |-> None,
     body |-> None]

\* Json(snapshot): 200 with the snapshot as the body.
JsonOk(snapshot) ==
    [status |-> 200, location |-> None, set_cookie |-> None, error |-> None,
     body |-> Some(snapshot)]

\* No response yet.
NoResponse ==
    [status |-> 0, location |-> None, set_cookie |-> None, error |-> None, body |-> None]

\* OAuthState.success_redirect.
success_redirect == "/auth/success"

\* auth_redirect on Ok(session_id).
auth_redirect_ok(session_id) ==
    RedirectTemporary(success_redirect, Some(build_cookie(session_config, session_id)))

\* auth_redirect on Err(error): the failure redirect when one is configured, else
\* the error itself.
auth_redirect_err(failure, error) ==
    IF failure # None
    THEN RedirectTemporary(CHOOSE target \in failure : TRUE, Some(build_logout_cookie(session_config)))
    ELSE ErrorResponse(error)

\* The `?` of a handler returning Result<_, ApiError>: the error is the response.
propagate(error) == ErrorResponse(error)

\* handle_auth_callback: exchange_code(..).map_err(ApiError::Auth).
exchange_error(msg) == ApiError("Auth", msg)

\* fetch_userinfo's error wrapped as Auth instead of Http.
userinfo_error_as_auth(msg) == ApiError("Auth", msg)

\* handle_auth_callback: fetch_userinfo(..).map_err(ApiError::Http).
userinfo_error(msg) == ApiError("Http", msg)

\* handle_auth_callback: extract_identity(..).ok_or_else(|| ApiError::Auth(..)).
missing_identity_error ==
    ApiError("Auth", "Unable to determine user identity from profile")
\* current_session: Unauthorized without cookie or without session, else the snapshot.
current_session(map, jar) ==
    IF jar = None
    THEN ErrorResponse(ApiError("Unauthorized", "authentication required"))
    ELSE LET snapshot == session_snapshot(map, CHOOSE c \in jar : TRUE)
         IN  IF snapshot = None
             THEN ErrorResponse(ApiError("Unauthorized", "authentication required"))
             ELSE JsonOk(CHOOSE s \in snapshot : TRUE)

\* ApiError::Unauthorized.
Unauthorized == ApiError("Unauthorized", "authentication required")

\* The handlers of /orders and /orders/:id.
OrderHandlers ==
    {"create_order", "list_orders", "get_order", "update_order", "delete_order"}

\* create_order and update_order call validate() on the payload first.
validates_payload(handler) == handler \in {"create_order", "update_order"}

\* The _id values of order documents; a document holds the userId of its owner
\* beside its contents.
OrderIds == {"o1", "o2"}
OrderDocument(user_id, data) == [user_id |-> user_id, data |-> data]

\* Order::from(document): the order as the API returns it.
Order(id, document) == [id |-> id, user_id |-> document.user_id, data |-> document.data]

\* What a call of the database driver comes back with: Ok or Err.
DbResults == {"ok", "error"}

\* A filter {"_id": id}, without the userId.
matches_any_owner(coll, id, user_id) == {x \in DOMAIN coll : x = id}

\* The documents a filter {"_id": id, "userId": user_id} matches.
matches(coll, id, user_id) == {x \in DOMAIN coll : x = id /\ coll[x].user_id = user_id}

\* Collection::insert_one: a duplicate _id is an error of the driver.
insert_one(coll, id, document) ==
    IF id \in DOMAIN coll
    THEN [ok |-> FALSE, coll |-> coll]
    ELSE [ok |-> TRUE, coll |-> MapInsert(coll, id, document)]

\* Collection::find(doc! {"userId": user_id}), collected into a Vec<Order>.
find(coll, user_id) ==
    {Order(id, coll[id]) : id \in {x \in DOMAIN coll : coll[x].user_id = user_id}}

\* Collection::find_one(doc! {"_id": id, "userId": user_id}).
find_one(coll, id, user_id) == {Order(x, coll[x]) : x \in matches(coll, id, user_id)}

\* Collection::update_one(doc! {"_id": id, "userId": user_id}, doc! {"$set": updates}).
update_one(coll, id, user_id, updates) ==
    [matched_count |-> Cardinality(matches(coll, id, user_id)),
     coll |-> [x \in DOMAIN coll |->
                 IF x \in matches(coll, id, user_id)
                 THEN [coll[x] EXCEPT !.data = updates]
                 ELSE coll[x]]]

\* Collection::delete_one(doc! {"_id": id, "userId": user_id}).
delete_one(coll, id, user_id) ==
    [deleted_count |-> Cardinality(matches(coll, id, user_id)),
     coll |-> [x \in DOMAIN coll \ matches(coll, id, user_id) |-> coll[x]]]

\* The status of the Ok of each handler.
order_ok_status(handler) ==
    CASE handler = "create_order" -> 201
      [] handler \in {"list_orders", "get_order"} -> 200
      [] handler \in {"update_order", "delete_order"} -> 204

\* Ok(..) of an order handler, with the Json body where there is one.
OrderOk(handler, body) ==
    [status |-> order_ok_status(handler), location |-> None, set_cookie |-> None,
     error |-> None, body |-> body]

NotFound == ApiError("NotFound", "order not found")
DatabaseError == ApiError("Database", "database error")

\* What an order handler may be asked: the id in the payload (create_order) or
\* in the path, whether the payload passes validate(), and the contents in the
\* payload (for update_order: None when no field is given).
OrderInputs(handler) ==
    CASE handler = "create_order" ->
            [id : {None} \cup {Some(id) : id \in OrderIds}, valid : {TRUE}, data : {Some("a")}]
               \cup {[id |-> None, valid |-> FALSE, data |-> Some("a")]}
      [] handler = "list_orders" -> {[id |-> None, valid |-> TRUE, data |-> None]}
      [] handler \in {"get_order", "delete_order"} ->
            [id : {Some(id) : id \in OrderIds}, valid : {TRUE}, data : {None}]
      [] handler = "update_order" ->
            [id : {Some(id) : id \in OrderIds}, valid : {TRUE}, data : {None, Some("b")}]
               \cup {[id |-> Some("o1"), valid |-> FALSE, data |-> Some("b")]}

\* An order handler: validate()? where there is a payload, then
\* session_user_id(&jar).ok_or(Unauthorized)?, then the database call, which
\* fails (db = "error") or answers from the collection. `uuid` is the id
\* Uuid::new_v4() would give. The result: the response, the calls made on the
\* collection and the collection afterwards.
order_handler(handler, input, uuid, session_user, db, coll) ==
    LET Answer(response, ops, after) == [response |-> response, ops |-> ops, orders |-> after]
        Call(op, id, user_id) == {[op |-> op, id |-> id, user_id |-> user_id]}
    IN
    IF validates_payload(handler) /\ ~input.valid
    THEN Answer(ErrorResponse(ApiError("Validation", "invalid payload")), {}, coll)
    ELSE IF session_user = None
    THEN Answer(ErrorResponse(Unauthorized), {}, coll)
    ELSE
    LET user_id == CHOOSE u \in session_user : TRUE
        id == unwrap_or(input.id, uuid)
    IN
    IF handler = "update_order" /\ input.data = None
    THEN Answer(OrderOk(handler, None), {}, coll)
    ELSE IF db = "error"
    THEN Answer(ErrorResponse(DatabaseError),
                Call(handler, IF handler = "list_orders" THEN None ELSE Some(id), user_id), coll)
    ELSE
    CASE handler = "create_order" ->
            LET data == CHOOSE d \in input.data : TRUE
                result == insert_one(coll, id, OrderDocument(user_id, data))
            IN  IF result.ok
                THEN Answer(OrderOk(handler, Some(Order(id, OrderDocument(user_id, data)))),
                            Call(handler, Some(id), user_id), result.coll)
                ELSE Answer(ErrorResponse(DatabaseError), Call(handler, Some(id), user_id), coll)
      [] handler = "list_orders" ->
            Answer(OrderOk(handler, Some(find(coll, user_id))), Call(handler, None, user_id), coll)
      [] handler = "get_order" ->
            LET order == find_one(coll, id, user_id) IN
            IF order = None
            THEN Answer(ErrorResponse(NotFound), Call(handler, Some(id), user_id), coll)
            ELSE Answer(OrderOk(handler, order), Call(handler, Some(id), user_id), coll)
      [] handler = "update_order" ->
            LET result == update_one(coll, id, user_id, CHOOSE d \in input.data : TRUE) IN
            IF result.matched_count = 0
            THEN Answer(ErrorResponse(NotFound), Call(handler, Some(id), user_id), result.coll)
            ELSE Answer(OrderOk(handler, None), Call(handler, Some(id), user_id), result.coll)
      [] handler = "delete_order" ->
            LET result == delete_one(coll, id, user_id) IN
            IF result.deleted_count = 0
            THEN Answer(ErrorResponse(NotFound), Call(handler, Some(id), user_id), result.coll)
            ELSE Answer(OrderOk(handler, None), Call(handler, Some(id), user_id), result.coll)

\* logout: the response.
logout_response(jar) ==
    IF jar # None THEN NoContent(Some(build_logout_cookie(session_config))) ELSE NoContent(None)

\* logout: the session map afterwards.
logout_sessions(map, jar) ==
    IF jar # None THEN remove_session(map, CHOOSE c \in jar : TRUE) ELSE map

\* ----------------------------------------------------------------- requests

\* A request outside any handler.
IdleRequest ==
    [handler |-> "none", code |-> FALSE, state |-> None, error |-> FALSE, jar |-> None,
     input |-> None, calls |-> {}, verifier |-> None, expires_in |-> None,
     profile |-> None, raised |-> None]

\* The values a session cookie of a request may carry: none, or a session id.
Jars == {None} \cup {Some(ToString(i)) : i \in 1..MaxSessions}

\* The state parameters a callback may carry.
StateParams == {None} \cup {Some(s) : s \in States}

\* No login attempt, no take.
NoAttempt == [st |-> "none", at |-> 0]
NoTake == [entry |-> "none", got |-> FALSE, rival |-> FALSE]
NoYield == [stored |-> 0, sessions |-> 0]

\* The two stores of OAuthState, each behind its own RwLock; no guard alive.
Locks == {"pending", "sessions"}
NoGuards == [l \in Locks |-> {}]

\* ------------------------------------------------------------- JWKS cache
\* JwksVerifier (apps/server/src/auth/mod.rs): the keys of the identity
\* provider, cached behind an RwLock.

\* Seconds for which a fetched JWKS is served from the cache.
CacheValidSecs == 3600
\* Seconds by which one advance moves the monotonic clock (Instant::now).
ElapseSecs == 1800
\* Number of advances of the monotonic clock explored.
MaxElapses == 3
\* Number of keys in a JWKS document explored.
MaxJwks == 2

\* The key ids that occur in token headers and in JWKS documents.
Kids == {"k1", "k2"}
\* Jwk.n: two moduli, and a string that is not base64url.
Malformed == "%"
Moduli == {"n1", "n2", Malformed}
\* Jwk, without alg (dead code) and e.
Jwk == [kid : Kids, kty : {"RSA", "EC"}, n : Moduli]
\* What the provider answers to the GET of jwks_url: nothing (transport
\* failure), a body that is not a Jwks, or a Jwks with its keys.
JwksResponses ==
    {[status |-> s, keys |-> << >>] : s \in {"unreachable", "unparsable"}}
    \cup {[status |-> "jwks", keys |-> keys] : keys \in UNION {[1..n -> Jwk] : n \in 0..MaxJwks}}

\* Result<T, String>
Ok(value) == [ok |-> TRUE, value |-> value]
Err(error) == [ok |-> FALSE, error |-> error]

\* DecodingKey::from_rsa_components: the key is its modulus; a modulus that is
\* not base64url is an error.
from_rsa_components(n) == IF n = Malformed THEN Err("Failed to create decoding key") ELSE Ok(n)

\* The for loop of fetch_jwks over the remaining jwks, with the keys inserted so
\* far: RSA keys only, a later key replaces an earlier one with the same kid,
\* and the first key that cannot be decoded ends the function with its error.
RECURSIVE fetch_jwks_keys(_, _)
fetch_jwks_keys(jwks, keys) ==
    IF jwks = << >>
    THEN Ok(keys)
    ELSE LET jwk == Head(jwks)
             key == from_rsa_components(jwk.n)
         IN  IF jwk.kty = "RSA"
             THEN IF key.ok
                  THEN fetch_jwks_keys(Tail(jwks), MapInsert(keys, jwk.kid, key.value))
                  ELSE key
             ELSE fetch_jwks_keys(Tail(jwks), keys)

fetch_jwks(response) ==
    CASE response.status = "unreachable" -> Err("Failed to fetch JWKS")
      [] response.status = "unparsable" -> Err("Failed to parse JWKS")
      [] OTHER -> fetch_jwks_keys(response.keys, EmptyMap)

\* JwksCache
JwksCache(keys, fetched_at) == [keys |-> keys, fetched_at |-> fetched_at]

\* The first block of get_key with a cache that is still served at the age of
\* one hour.
cached_key_at_one_hour(slot, kid, t) ==
    IF slot = None
    THEN None
    ELSE LET cached == CHOOSE c \in slot : TRUE
         IN  IF t - cached.fetched_at <= CacheValidSecs
             THEN MapGet(cached.keys, kid)
             ELSE None

\* The first block of get_key: the key of kid from a cache that is there and
\* was fetched less than an hour before the instant t.
cached_key(slot, kid, t) ==
    IF slot = None
    THEN None
    ELSE LET cached == CHOOSE c \in slot : TRUE
         IN  IF t - cached.fetched_at < CacheValidSecs
             THEN MapGet(cached.keys, kid)
             ELSE None

\* The end of get_key: keys.get(kid).cloned().ok_or_else(..)
key_of(keys, kid) ==
    IF kid \in DOMAIN keys THEN Ok(keys[kid]) ELSE Err("Key not found in JWKS")

\* The tasks that call get_key (each verify_token of a request).
Verifications == {"v1", "v2"}
\* A get_key that has not been called: no kid, no fetched keys, no result.
IdleGetKey == [pc |-> "idle", kid |-> "", keys |-> EmptyMap, fetched |-> FALSE, result |-> Err("")]

\* No function called on its own, nothing returned.
NoCall == [fn |-> "none", arg |-> JNull]
NotReturned == [done |-> FALSE, value |-> None]

Init ==
    /\ now = 0
    /\ failure_redirect \in {None, Some("/auth/failure")}
    /\ pending = EmptyMap
    /\ sessions = EmptyMap
    /\ issued = 0
    /\ nextSid = 0
    /\ cleanupPc = "idle"
    /\ orders = EmptyMap
    /\ holds = NoGuards
    /\ pc = [r \in Requests |-> "idle"]
    /\ req = [r \in Requests |-> IdleRequest]
    /\ resp = [r \in Requests |-> NoResponse]
    /\ attempt = [s \in States |-> NoAttempt]
    /\ took = [r \in Requests |-> NoTake]
    /\ created = EmptyMap
    /\ abandoned = [s \in States |-> FALSE]
    /\ afterAbandon = [r \in Requests |-> FALSE]
    /\ yielded = [s \in States |-> NoYield]
    /\ ret = NotReturned
    /\ cache = None
    /\ instant = 0
    /\ getKey = [v \in Verifications |-> IdleGetKey]

\* ------------------------------------------------------------------ history

\* What a step of the program was.
StoreStep(s) == issued' # issued /\ s \in DOMAIN pending' /\ pending'[s].verifier[2] = issued'
TakeStep(r) == pc[r] = "take" /\ pc'[r] # "take"
CreateStep(r) == pc[r] = "create" /\ pc'[r] = "done"
LogoutStep(r) == pc[r] = "idle" /\ pc'[r] = "done" /\ req'[r].handler = "logout"
ProviderErrorStep(r) == pc[r] = "idle" /\ pc'[r] = "done" /\ req'[r].error
AcceptStep(r) == pc[r] = "idle" /\ pc'[r] = "take"

\* take_pending handed r the (verifier, nonce) pair.
Obtained(r) == pc[r] = "exchange" /\ req[r].verifier # None

\* The login attempt of s can still be redeemed at time t: it was stored, no
\* take_pending has returned its pair, and it is at most 10 minutes old.
Redeemable(s, t) ==
    attempt[s].st = "stored" /\ t - attempt[s].at <= PendingMaxAgeMinutes

\* The history of login attempts and of the take_pending calls on the current
\* attempt of each state: a new store_pending(s) starts a new attempt.
TakeHistory ==
    /\ attempt' = [s \in States |->
          IF StoreStep(s) THEN [st |-> "stored", at |-> now]
          ELSE IF \E r \in Requests : TakeStep(r) /\ req[r].state = Some(s) /\ Obtained(r)'
          THEN [st |-> "taken", at |-> 0]
          ELSE attempt[s]]
    /\ took' = [r \in Requests |->
          IF TakeStep(r)
          THEN LET s == CHOOSE x \in req[r].state : TRUE IN
               [entry |-> IF s \notin DOMAIN pending THEN "absent"
                          ELSE IF now - pending[s].created_at > PendingMaxAgeMinutes
                          THEN "stale" ELSE "fresh",
                got |-> Obtained(r)',
                rival |-> \E x \in Requests \ {r} :
                             pc[x] = "take" /\ req[x].state = req[r].state]
          ELSE IF pc'[r] = "idle" \/ \E s \in req[r].state : StoreStep(s)
          THEN NoTake
          ELSE took[r]]

\* The history of sessions: the identity and the deadline (creation time plus
\* ttl, None without ttl) of every session created and not removed on request.
SessionHistory ==
    created' =
       IF \E r \in Requests : CreateStep(r)
       THEN LET r == CHOOSE x \in Requests : CreateStep(x)
                profile == CHOOSE p \in req[r].profile : TRUE
                cookie == CHOOSE c \in resp'[r].set_cookie : TRUE
            IN  MapInsert(created, cookie.value,
                          [id |-> (CHOOSE u \in extract_identity(profile) : TRUE).id,
                           deadline |-> {now + ttl : ttl \in req[r].expires_in}])
       ELSE IF \E r \in Requests : LogoutStep(r)
       THEN LET r == CHOOSE x \in Requests : LogoutStep(x)
            IN  [id \in DOMAIN created \ req'[r].jar |-> created[id]]
       ELSE created

\* The history of provider-reported errors: s is abandoned from an error callback
\* that carries it while it is pending, for as long as its entry stays.
AbandonHistory ==
    /\ abandoned' = [s \in States |->
          /\ ~StoreStep(s)
          /\ s \in DOMAIN pending'
          /\ \/ abandoned[s]
             \/ \E r \in Requests :
                   /\ ProviderErrorStep(r)
                   /\ req'[r].state = Some(s)
                   /\ now - pending[s].created_at <= PendingMaxAgeMinutes]
    /\ afterAbandon' = [r \in Requests |->
          IF AcceptStep(r) THEN abandoned[CHOOSE s \in req'[r].state : TRUE]
          ELSE IF pc'[r] = "idle" THEN FALSE ELSE afterAbandon[r]]

\* The history of what each state yields: how many times store_pending stored
\* it, and how many sessions the callbacks that carried it created.
YieldHistory ==
    yielded' = [s \in States |->
        [stored |-> yielded[s].stored + (IF StoreStep(s) THEN 1 ELSE 0),
         sessions |-> yielded[s].sessions
                         + Cardinality({r \in Requests :
                                           CreateStep(r) /\ req[r].state = Some(s)})]]

\* Every step records the history that `observe` selects.
Record ==
    /\ observe' = observe
    /\ UNCHANGED <<callVars, jwksVars>>
    /\ IF observe = "takes" THEN TakeHistory ELSE UNCHANGED takeVars
    /\ IF observe = "sessions" THEN SessionHistory ELSE UNCHANGED createdVars
    /\ IF observe = "abandon" THEN AbandonHistory ELSE UNCHANGED abandonVars
    /\ IF observe = "yield" THEN YieldHistory ELSE UNCHANGED yieldVars

\* ------------------------------------------------------------------- guards

\* The request handlers and the cleanup task.
Tasks == Requests \cup {"cleanup"}

\* A guard of RwLock l is alive in the hands of p.
Holds(p, l) == \E mode \in {"read", "write"} : <<p, mode>> \in holds[l]
HoldsNothing(p) == \A l \in Locks : ~Holds(p, l)

\* RwLock::write().await returns when no guard is alive, RwLock::read().await
\* when no write guard is.
lock_granted(guards, mode) ==
    IF mode = "write" THEN guards = {} ELSE \A guard \in guards : guard[2] = "read"

\* A guard that outlives the function that took it.
drop_guard_leaked(guards, p, mode) == guards

\* The guard goes out of scope where the function that took it returns.
drop_guard(guards, p, mode) == guards \ {<<p, mode>>}

\* A store function of OAuthState runs between taking its guard and dropping it:
\* with the guards followed (observe = "guards") it is the step that ends with
\* the drop, otherwise the whole of it is one step.
Guarded(p, l, mode) ==
    IF observe = "guards"
    THEN /\ <<p, mode>> \in holds[l]
         /\ holds' = [holds EXCEPT ![l] = drop_guard(@, p, mode)]
    ELSE /\ HoldsNothing(p)
         /\ holds' = holds

\* A step outside the store functions.
Unguarded(p) == HoldsNothing(p) /\ holds' = holds

\* The guard p asks for next where it stands: start_login (store_pending),
\* current_session (session_snapshot) and logout (remove_session) from the
\* start of a request, take_pending and create_session inside
\* handle_auth_callback, and the two blocks of cleanup_expired.
AwaitsGuard(p, l, mode) ==
    IF p = "cleanup"
    THEN \/ cleanupPc = "idle" /\ l = "pending" /\ mode = "write"
         \/ cleanupPc = "sessions" /\ l = "sessions" /\ mode = "write"
    ELSE \/ pc[p] = "idle" /\ l = "pending" /\ mode = "write" /\ issued < MaxLogins
         \/ pc[p] = "idle" /\ l = "sessions"
         \/ pc[p] = "take" /\ l = "pending" /\ mode = "write"
         \/ pc[p] = "create" /\ l = "sessions" /\ mode = "write" /\ nextSid < MaxSessions

\* ------------------------------------------------------------------ actions

\* The handler of r returns `response`, having raised `raised` (None: no error).
\* Its locals are dropped; the request keeps what it was asked.
Respond(r, fields, raised, response) ==
    /\ pc' = [pc EXCEPT ![r] = "done"]
    /\ req' = [req EXCEPT ![r] = [IdleRequest EXCEPT !.handler = fields.handler,
                                     !.state = fields.state, !.error = fields.error,
                                     !.jar = fields.jar, !.input = fields.input,
                                     !.calls = fields.calls,
                                     !.raised = raised]]
    /\ resp' = [resp EXCEPT ![r] = response]

\* start_login: build_authorization_url, store_pending, redirect to the provider.
StartLogin(r) ==
    /\ pc[r] = "idle"
    /\ issued < MaxLogins
    /\ \E s \in States :
          LET k == issued + 1 IN
          /\ pending' = store_pending(pending, s, <<"verifier", k>>, <<"nonce", k>>, now)
          /\ issued' = k
          /\ Respond(r, [IdleRequest EXCEPT !.handler = "login", !.state = Some(s)], None,
                     RedirectTemporary("/authorize?state=" \o s, None))
    /\ UNCHANGED <<now, failure_redirect, orders, sessionVars, cleanupPc>>
    /\ Guarded(r, "pending", "write")
    /\ Record

\* handle_auth_callback, query.error present: auth_redirect(Err(Auth)) at once.
CallbackProviderError(r) ==
    /\ pc[r] = "idle"
    /\ \E code \in BOOLEAN, state \in StateParams :
          LET error == ApiError("Auth", "error: description") IN
          Respond(r, [IdleRequest EXCEPT !.handler = "callback", !.code = code,
                                         !.state = state, !.error = TRUE],
                  Some(error), auth_redirect_err(failure_redirect, error))
    /\ UNCHANGED <<now, failure_redirect, orders, holds, storeVars, sessionVars, cleanupPc>>
    /\ HoldsNothing(r)
    /\ Record

\* handle_auth_callback, no error but code or state missing: `?` on Auth.
CallbackMissingParam(r) ==
    /\ pc[r] = "idle"
    /\ \E code \in BOOLEAN, state \in StateParams :
          /\ ~code \/ state = None
          /\ LET error == IF ~code THEN ApiError("Auth", "Missing authorization code")
                          ELSE ApiError("Auth", "Missing state parameter") IN
             Respond(r, [IdleRequest EXCEPT !.handler = "callback", !.code = code,
                                            !.state = state],
                     Some(error), propagate(error))
    /\ UNCHANGED <<now, failure_redirect, orders, holds, storeVars, sessionVars, cleanupPc>>
    /\ HoldsNothing(r)
    /\ Record

\* handle_auth_callback, code and state present: on to take_pending.
CallbackAccept(r) ==
    /\ pc[r] = "idle"
    /\ \E s \in States :
          /\ pc' = [pc EXCEPT ![r] = "take"]
          /\ req' = [req EXCEPT ![r] = [IdleRequest EXCEPT !.handler = "callback",
                                           !.code = TRUE, !.state = Some(s)]]
    /\ UNCHANGED <<now, failure_redirect, orders, holds, storeVars, sessionVars, cleanupPc, resp>>
    /\ HoldsNothing(r)
    /\ Record

\* handle_auth_callback: take_pending(state_param), `?` on None.
CallbackTake(r) ==
    /\ pc[r] = "take"
    /\ LET s == CHOOSE x \in req[r].state : TRUE
           taken == take_pending(pending, s, now)
           error == ApiError("Auth", "Unknown or expired state parameter")
       IN  /\ pending' = take_pending_map(pending, s)
           /\ IF taken = None
              THEN Respond(r, req[r], Some(error), propagate(error))
              ELSE /\ pc' = [pc EXCEPT ![r] = "exchange"]
                   /\ req' = [req EXCEPT ![r].verifier = {pair[1] : pair \in taken}]
                   /\ resp' = resp
    /\ UNCHANGED <<now, failure_redirect, orders, issued, sessionVars, cleanupPc>>
    /\ Guarded(r, "pending", "write")
    /\ Record

\* exchange_code(code, verifier) returned Ok(token_response); the verifier was
\* moved into the call.
ExchangeOk(r) ==
    /\ pc[r] = "exchange"
    /\ \E e \in ExpiresIns :
          /\ pc' = [pc EXCEPT ![r] = "userinfo"]
          /\ req' = [req EXCEPT ![r].expires_in = e, ![r].verifier = None]
    /\ UNCHANGED <<now, failure_redirect, orders, holds, storeVars, sessionVars, cleanupPc, resp>>
    /\ Record

\* exchange_code returned Err: map_err(ApiError::Auth)?.
ExchangeFail(r) ==
    /\ pc[r] = "exchange"
    /\ LET error == exchange_error("exchange failed") IN
       Respond(r, req[r], Some(error), propagate(error))
    /\ UNCHANGED <<now, failure_redirect, orders, holds, storeVars, sessionVars, cleanupPc>>
    /\ Record

\* fetch_userinfo returned Err: map_err(ApiError::Http)?.
UserinfoFail(r) ==
    /\ pc[r] = "userinfo"
    /\ LET error == userinfo_error("userinfo failed") IN
       Respond(r, req[r], Some(error), propagate(error))
    /\ UNCHANGED <<now, failure_redirect, orders, holds, storeVars, sessionVars, cleanupPc>>
    /\ Record

\* fetch_userinfo returned a profile; extract_identity, `?` on None.
UserinfoOk(r) ==
    /\ pc[r] = "userinfo"
    /\ \E profile \in Profiles :
          LET error == missing_identity_error
          IN  IF extract_identity(profile) = None
              THEN Respond(r, req[r], Some(error), propagate(error))
              ELSE /\ pc' = [pc EXCEPT ![r] = "create"]
                   /\ req' = [req EXCEPT ![r].profile = Some(profile)]
                   /\ resp' = resp
    /\ UNCHANGED <<now, failure_redirect, orders, holds, storeVars, sessionVars, cleanupPc>>
    /\ Record

\* create_session(identity, expires_in, profile), then auth_redirect(Ok(session_id)).
CallbackCreate(r) ==
    /\ pc[r] = "create"
    /\ nextSid < MaxSessions
    /\ LET profile == CHOOSE p \in req[r].profile : TRUE
           identity == CHOOSE u \in extract_identity(profile) : TRUE
           session_id == new_session_id(nextSid)
       IN  /\ sessions' = create_session(sessions, session_id, identity,
                                         req[r].expires_in, profile, now)
           /\ nextSid' = nextSid + 1
           /\ Respond(r, req[r], None, auth_redirect_ok(session_id))
    /\ UNCHANGED <<now, failure_redirect, orders, storeVars, cleanupPc>>
    /\ Guarded(r, "sessions", "write")
    /\ Record

\* current_session (GET /auth/me).
CurrentSession(r) ==
    /\ pc[r] = "idle"
    /\ \E jar \in Jars :
          LET response == current_session(sessions, jar) IN
          /\ Respond(r, [IdleRequest EXCEPT !.handler = "me", !.jar = jar],
                     response.error, response)
          /\ IF jar # None THEN Guarded(r, "sessions", "read") ELSE Unguarded(r)
    /\ UNCHANGED <<now, failure_redirect, orders, storeVars, sessionVars, cleanupPc>>
    /\ Record

\* logout (POST /auth/logout).
Logout(r) ==
    /\ pc[r] = "idle"
    /\ \E jar \in Jars :
          /\ sessions' = logout_sessions(sessions, jar)
          /\ Respond(r, [IdleRequest EXCEPT !.handler = "logout", !.jar = jar], None,
                     logout_response(jar))
          /\ IF jar # None THEN Guarded(r, "sessions", "write") ELSE Unguarded(r)
    /\ UNCHANGED <<now, failure_redirect, orders, storeVars, nextSid, cleanupPc>>
    /\ Record

\* create_order, list_orders, get_order, update_order, delete_order.
OrderRequest(r) ==
    /\ pc[r] = "idle"
    /\ \E handler \in OrderHandlers, jar \in Jars, db \in DbResults :
          \E input \in OrderInputs(handler) :
             \E uuid \in IF input.id = None THEN OrderIds \ DOMAIN orders ELSE {"unused"} :
                LET result == order_handler(handler, input, uuid,
                                            session_user_id(sessions, jar, now), db, orders)
                IN  /\ orders' = result.orders
                    /\ Respond(r, [IdleRequest EXCEPT !.handler = handler, !.jar = jar,
                                                      !.input = Some(input),
                                                      !.calls = result.ops],
                               result.response.error, result.response)
    /\ UNCHANGED <<now, failure_redirect, holds, storeVars, sessionVars, cleanupPc>>
    /\ HoldsNothing(r)
    /\ Record

\* The response has been sent; the connection serves the next request.
Finish(r) ==
    /\ pc[r] = "done"
    /\ pc' = [pc EXCEPT ![r] = "idle"]
    /\ req' = [req EXCEPT ![r] = IdleRequest]
    /\ resp' = [resp EXCEPT ![r] = NoResponse]
    /\ UNCHANGED <<now, failure_redirect, orders, holds, storeVars, sessionVars, cleanupPc>>
    /\ Record

\* The cleanup task: the first block of cleanup_expired.
CleanupPending ==
    /\ cleanupPc = "idle"
    /\ pending' = cleanup_pending(pending, now)
    /\ cleanupPc' = "sessions"
    /\ UNCHANGED <<now, failure_redirect, orders, issued, sessionVars, reqVars>>
    /\ Guarded("cleanup", "pending", "write")
    /\ Record

\* The cleanup task: the second block of cleanup_expired.
CleanupSessions ==
    /\ cleanupPc = "sessions"
    /\ sessions' = cleanup_sessions(sessions, now)
    /\ cleanupPc' = "idle"
    /\ UNCHANGED <<now, failure_redirect, orders, storeVars, nextSid, reqVars>>
    /\ Guarded("cleanup", "sessions", "write")
    /\ Record

\* A task inside handle_auth_callback or cleanup_expired waits for the write
\* guard of l. The RwLock is write-preferring: it gives out no read guard while
\* a writer waits.
WriterWaits(l) ==
    \E p \in Tasks : HoldsNothing(p) /\ (p \in Requests => pc[p] # "idle")
                      /\ (p = "cleanup" => cleanupPc # "idle")
                      /\ AwaitsGuard(p, l, "write")

\* self.pending.write().await, self.sessions.write().await or
\* self.sessions.read().await returns its guard to p.
AcquireGuard(p, l, mode) ==
    /\ observe = "guards"
    /\ HoldsNothing(p)
    /\ AwaitsGuard(p, l, mode)
    /\ lock_granted(holds[l], mode)
    /\ mode = "read" => ~WriterWaits(l)
    /\ holds' = [holds EXCEPT ![l] = @ \cup {<<p, mode>>}]
    /\ UNCHANGED <<now, failure_redirect, orders, storeVars, sessionVars, cleanupPc, reqVars>>
    /\ Record

\* The wall clock advances.
Tick ==
    /\ now < MaxTicks * TickMinutes
    /\ now' = now + TickMinutes
    /\ UNCHANGED <<failure_redirect, orders, holds, storeVars, sessionVars, cleanupPc, reqVars>>
    /\ Record

\* ----------------------------------------------------------- specifications

Next ==
    \/ \E r \in Requests : StartLogin(r)
    \/ \E r \in Requests : CallbackProviderError(r)
    \/ \E r \in Requests : CallbackMissingParam(r)
    \/ \E r \in Requests : CallbackAccept(r)
    \/ \E r \in Requests : CallbackTake(r)
    \/ \E r \in Requests : ExchangeOk(r)
    \/ \E r \in Requests : ExchangeFail(r)
    \/ \E r \in Requests : UserinfoOk(r)
    \/ \E r \in Requests : UserinfoFail(r)
    \/ \E r \in Requests : CallbackCreate(r)
    \/ \E r \in Requests : CurrentSession(r)
    \/ \E r \in Requests : Logout(r)
    \/ \E r \in Requests : Finish(r)
    \/ CleanupPending
    \/ CleanupSessions
    \/ Tick

\* The program alone.
InitPlain == Init /\ observe = "none" /\ call = NoCall
Spec == InitPlain /\ [][Next]_vars

\* The program with the history of login attempts and takes.
InitTakes == Init /\ observe = "takes" /\ call = NoCall
SpecTakes == InitTakes /\ [][Next]_vars

\* The program with the history of sessions.
InitSessions == Init /\ observe = "sessions" /\ call = NoCall
SpecSessions == InitSessions /\ [][Next]_vars

\* The program with the history of sessions and OAUTH_FAILURE_REDIRECT unset,
\* under the scheduling of main: the clock advances, and the spawned cleanup
\* task loops for ever, so each of its two blocks runs again and again.
Fairness == WF_vars(Tick) /\ WF_vars(CleanupPending) /\ WF_vars(CleanupSessions)
InitLive == InitSessions /\ failure_redirect = None
SpecLive == InitLive /\ [][Next]_vars /\ Fairness

\* The program with the history of what each state yields, OAUTH_FAILURE_REDIRECT
\* unset.
InitYield == Init /\ observe = "yield" /\ call = NoCall /\ failure_redirect = None
SpecYield == InitYield /\ [][Next]_vars

\* The program with the history of provider-reported errors.
InitAbandon == Init /\ observe = "abandon" /\ call = NoCall
SpecAbandon == InitAbandon /\ [][Next]_vars

\* The program with the guards of its two locks followed, OAUTH_FAILURE_REDIRECT
\* unset.
InitGuards == Init /\ observe = "guards" /\ call = NoCall /\ failure_redirect = None

NextGuards ==
    \/ Next
    \/ \E p \in Tasks, l \in Locks, mode \in {"read", "write"} : AcquireGuard(p, l, mode)

SpecGuards == InitGuards /\ [][NextGuards]_vars

\* The scheduling of the tasks where the guards are followed. A task that holds
\* a guard is inside a store function, which has no await before its return, so
\* the step that drops the guard is taken (weak fairness). A task that waits
\* for a guard inside handle_auth_callback or cleanup_expired gets it when the
\* lock is free again and again, the RwLock serving its waiters in the order
\* they came (strong fairness). Nothing makes a client send a request.
FairGuards ==
    /\ \A r \in Requests :
          /\ WF_vars(~HoldsNothing(r) /\ (\/ StartLogin(r) \/ CallbackTake(r)
                                          \/ CallbackCreate(r) \/ CurrentSession(r)
                                          \/ Logout(r)))
          /\ SF_vars(pc[r] # "idle" /\ \E l \in Locks : AcquireGuard(r, l, "write"))
    /\ WF_vars(CleanupPending)
    /\ WF_vars(CleanupSessions)
    /\ SF_vars(\E l \in Locks : AcquireGuard("cleanup", l, "write"))

\* The steps that take, use and drop guards, and those that lead a callback
\* from one store function to the next; the clock stands still.
NextGuardsLive ==
    \/ \E r \in Requests : StartLogin(r)
    \/ \E r \in Requests : CallbackAccept(r)
    \/ \E r \in Requests : CallbackTake(r)
    \/ \E r \in Requests : ExchangeOk(r)
    \/ \E r \in Requests : UserinfoOk(r)
    \/ \E r \in Requests : CallbackCreate(r)
    \/ \E r \in Requests : CurrentSession(r)
    \/ \E r \in Requests : Logout(r)
    \/ \E r \in Requests : Finish(r)
    \/ CleanupPending
    \/ CleanupSessions
    \/ \E p \in Tasks, l \in Locks, mode \in {"read", "write"} : AcquireGuard(p, l, mode)

SpecGuardsLive == InitGuards /\ [][NextGuardsLive]_vars /\ FairGuards

\* The order endpoints, from the state two logins leave behind: a session of
\* user 42 that lasts one tick and a session of user 7 without expiry, over an
\* orders collection that holds an order of each or of user 7 only. The
\* first session ends by expiry.
OrderProfiles ==
    [session \in {"1", "2"} |->
        IF session = "1"
        THEN JObj({<<"id", JNum(42)>>, <<"email", JStr("a@b.com")>>, <<"name", JStr("A")>>})
        ELSE JObj({<<"id", JNum(7)>>})]

LoggedIn(map, session_id, expires_in) ==
    create_session(map, session_id,
                   CHOOSE user \in extract_identity(OrderProfiles[session_id]) : TRUE,
                   expires_in, OrderProfiles[session_id], 0)

InitOrders ==
    /\ now = 0
    /\ failure_redirect = None
    /\ pending = EmptyMap
    /\ issued = MaxLogins
    /\ sessions = LoggedIn(LoggedIn(EmptyMap, "1", Some(TickMinutes)), "2", None)
    /\ nextSid = MaxSessions
    /\ cleanupPc = "idle"
    /\ orders \in {MapInsert(EmptyMap, "o1", OrderDocument("7", "a")),
                   MapInsert(MapInsert(EmptyMap, "o1", OrderDocument("7", "a")),
                             "o2", OrderDocument("42", "a"))}
    /\ holds = NoGuards
    /\ pc = [r \in Requests |-> "idle"]
    /\ req = [r \in Requests |-> IdleRequest]
    /\ resp = [r \in Requests |-> NoResponse]
    /\ attempt = [s \in States |-> NoAttempt]
    /\ took = [r \in Requests |-> NoTake]
    /\ created = EmptyMap
    /\ abandoned = [s \in States |-> FALSE]
    /\ afterAbandon = [r \in Requests |-> FALSE]
    /\ yielded = [s \in States |-> NoYield]
    /\ observe = "none"
    /\ call = NoCall
    /\ ret = NotReturned
    /\ cache = None
    /\ instant = 0
    /\ getKey = [v \in Verifications |-> IdleGetKey]

NextOrders ==
    \/ \E r \in Requests : OrderRequest(r)
    \/ \E r \in Requests : Finish(r)
    \/ Tick

SpecOrders == InitOrders /\ [][NextOrders]_vars

\* extract_identity on its own: an associated function without self, applied to
\* any profile.
InitIdentity ==
    /\ Init
    /\ observe = "none"
    /\ call \in {[fn |-> "extract_identity", arg |-> profile] : profile \in IdentityProfiles}

CallExtractIdentity ==
    /\ call.fn = "extract_identity"
    /\ ~ret.done
    /\ ret' = [done |-> TRUE, value |-> extract_identity(call.arg)]
    /\ UNCHANGED <<progVars, histVars, observe, call, jwksVars>>

NextIdentity == CallExtractIdentity

SpecIdentity == InitIdentity /\ [][NextIdentity]_vars

\* build_cookie and build_logout_cookie on their own, for any session
\* configuration an OAuthState can be built from.
SessionTtls == {0 - 3600, 0 - 1, 0, 1, 600, 3600, 7200}
SessionConfigs ==
    [ttl : SessionTtls, cookie_domain : {None, Some("example.com")}, cookie_secure : BOOLEAN]

InitCookie ==
    /\ Init
    /\ observe = "none"
    /\ call \in {[fn |-> "build_cookie", arg |-> [config |-> c, session_id |-> id]] :
                    c \in SessionConfigs, id \in {"1", "2"}}
               \cup {[fn |-> "build_logout_cookie", arg |-> [config |-> c]] :
                        c \in SessionConfigs}

CallBuildCookie ==
    /\ call.fn = "build_cookie"
    /\ ~ret.done
    /\ ret' = [done |-> TRUE, value |-> Some(build_cookie(call.arg.config, call.arg.session_id))]
    /\ UNCHANGED <<progVars, histVars, observe, call, jwksVars>>

CallBuildLogoutCookie ==
    /\ call.fn = "build_logout_cookie"
    /\ ~ret.done
    /\ ret' = [done |-> TRUE, value |-> Some(build_logout_cookie(call.arg.config))]
    /\ UNCHANGED <<progVars, histVars, observe, call, jwksVars>>

NextCookie == CallBuildCookie \/ CallBuildLogoutCookie

SpecCookie == InitCookie /\ [][NextCookie]_vars

\* get_key on its own: calls of get_key beside each other, the provider
\* answering each fetch as it likes, and the monotonic clock advancing.

\* get_key up to the end of its first block: under the read guard, the key
\* from the cache is returned, or the call goes on to fetch.
GetKeyCheck(v, kid) ==
    /\ getKey[v].pc = "idle"
    /\ LET key == cached_key(cache, kid, instant) IN
       getKey' = [getKey EXCEPT ![v] =
                     IF key # None
                     THEN [IdleGetKey EXCEPT !.pc = "done", !.kid = kid,
                                             !.result = Ok(CHOOSE k \in key : TRUE)]
                     ELSE [IdleGetKey EXCEPT !.pc = "fetch", !.kid = kid]]
    /\ UNCHANGED <<cache, instant>>
    /\ UNCHANGED <<progVars, histVars, observe, callVars>>

\* self.fetch_jwks().await?: the fetched keys, or the return of its error.
GetKeyFetch(v, response) ==
    /\ getKey[v].pc = "fetch"
    /\ LET keys == fetch_jwks(response) IN
       getKey' = [getKey EXCEPT ![v] =
                     IF keys.ok
                     THEN [@ EXCEPT !.pc = "update", !.keys = keys.value, !.fetched = TRUE]
                     ELSE [@ EXCEPT !.pc = "done", !.result = keys, !.fetched = TRUE]]
    /\ UNCHANGED <<cache, instant>>
    /\ UNCHANGED <<progVars, histVars, observe, callVars>>

\* The second block of get_key, under the write guard, and the answer from the
\* fetched keys.
GetKeyUpdate(v) ==
    /\ getKey[v].pc = "update"
    /\ cache' = Some(JwksCache(getKey[v].keys, instant))
    /\ getKey' = [getKey EXCEPT ![v] =
                     [@ EXCEPT !.pc = "done", !.result = key_of(getKey[v].keys, getKey[v].kid)]]
    /\ UNCHANGED instant
    /\ UNCHANGED <<progVars, histVars, observe, callVars>>

\* The caller has the result; the task may call get_key again.
GetKeyReturn(v) ==
    /\ getKey[v].pc = "done"
    /\ getKey' = [getKey EXCEPT ![v] = IdleGetKey]
    /\ UNCHANGED <<cache, instant>>
    /\ UNCHANGED <<progVars, histVars, observe, callVars>>

\* The monotonic clock advances.
Elapse ==
    /\ instant < MaxElapses * ElapseSecs
    /\ instant' = instant + ElapseSecs
    /\ UNCHANGED <<cache, getKey>>
    /\ UNCHANGED <<progVars, histVars, observe, callVars>>

InitJwks == Init /\ observe = "none" /\ call = NoCall /\ failure_redirect = None

NextJwks ==
    \/ \E v \in Verifications, kid \in Kids : GetKeyCheck(v, kid)
    \/ \E v \in Verifications, response \in JwksResponses : GetKeyFetch(v, response)
    \/ \E v \in Verifications : GetKeyUpdate(v)
    \/ \E v \in Verifications : GetKeyReturn(v)
    \/ Elapse

SpecJwks == InitJwks /\ [][NextJwks]_vars

\* --------------------------------------------------------------------- claims

\* The state parameter of r's callback.
StateOf(r) == CHOOSE s \in req[r].state : TRUE

\* The error `?` returns when take_pending found nothing.
UnknownState == ApiError("Auth", "Unknown or expired state parameter")

\* C1: for a state recorded by store_pending, a take_pending returns the pair
\* exactly when the attempt is still redeemable: no take has returned its pair
\* since the store and the store is at most 10 minutes old.  So the first take
\* within 10 minutes succeeds and every later take returns nothing.
C1_TakeSucceedsExactlyOnce ==
    [][\A r \in Requests :
          TakeStep(r) => (Obtained(r)' <=> Redeemable(StateOf(r), now))]_vars

\* A take on an attempt whose pair was already taken has returned nothing.
C1_Witness ==
    \E r \in Requests :
       /\ pc[r] = "done"
       /\ took[r].entry = "absent"
       /\ ~took[r].got
       /\ attempt[StateOf(r)].st = "taken"

\* C2: when r1 takes a fresh entry while another callback r2 with the same state
\* is waiting to take it, r1 obtains the pair and r2, once it has taken, has
\* obtained nothing and answers with the unknown-state error.
C2_RaceHasOneWinner ==
    \A r1 \in Requests, r2 \in Requests :
       (/\ r1 # r2
        /\ took[r1].rival
        /\ took[r1].entry = "fresh"
        /\ took[r2].entry # "none"
        /\ req[r1].state = req[r2].state)
       => /\ took[r1].got
          /\ ~took[r2].got
          /\ pc[r2] = "done"
          /\ req[r2].raised = Some(UnknownState)

\* Both callbacks of a race have taken: one holds the pair, the other was refused.
C2_Witness ==
    \E r1 \in Requests, r2 \in Requests :
       /\ r1 # r2
       /\ took[r1].rival
       /\ took[r1].got
       /\ pc[r1] = "exchange"
       /\ req[r1].state = req[r2].state
       /\ took[r2].entry = "absent"
       /\ req[r2].raised = Some(UnknownState)

\* C3: a take_pending that met an entry older than 10 minutes, still in the map,
\* returned nothing.
C3_StaleEntryNeverHonored ==
    \A r \in Requests :
       took[r].entry = "stale"
       => /\ ~took[r].got
          /\ pc[r] = "done"
          /\ req[r].raised = Some(UnknownState)

\* A take has met an entry older than 10 minutes that no cleanup had removed.
C3_Witness ==
    \E r \in Requests : took[r].entry = "stale" /\ pc[r] = "done"

\* The session of id has an expires_at in the past.
Expired(id) == \E e \in sessions[id].expires_at : e < now

\* C4: a session whose expires_at is in the past is returned by no read path:
\* not by session_user_id, not by session_snapshot, not by current_session.
C4_ExpiredSessionNeverReturned ==
    \A id \in DOMAIN sessions :
       Expired(id)
       => /\ session_user_id(sessions, Some(id), now) = None
          /\ session_snapshot(sessions, id) = None
          /\ current_session(sessions, Some(id)).status # 200

\* C5: a session created with a ttl and not removed by remove_session resolves to
\* its identity id at every instant before creation time plus ttl, and to nothing
\* at every instant after it.
C5_SessionValidUntilDeadline ==
    \A id \in DOMAIN created :
       \A deadline \in created[id].deadline :
          /\ now < deadline
                => session_user_id(sessions, Some(id), now) = Some(created[id].id)
          /\ now > deadline
                => session_user_id(sessions, Some(id), now) = None

\* A session is past its deadline and still in the map.
C5_Witness ==
    \E id \in DOMAIN created :
       /\ id \in DOMAIN sessions
       /\ \E deadline \in created[id].deadline : now > deadline

\* C6: a session created without ttl and not removed by remove_session resolves to
\* its identity id at every instant, whatever cleanup_expired has swept.
C6_NoTtlSessionNeverExpires ==
    \A id \in DOMAIN created :
       created[id].deadline = None
       => session_user_id(sessions, Some(id), now) = Some(created[id].id)

\* The first session has no ttl and is still there after the clock has advanced and
\* cleanup_expired has swept the session created after it.
C6_Witness ==
    /\ now > 0
    /\ DOMAIN created = {"1", "2"}
    /\ created["1"].deadline = None
    /\ DOMAIN sessions = {"1"}

\* C7: a callback without error parameter whose state is not redeemable when
\* take_pending runs (never stored, already taken, or older than 10 minutes) ends
\* there with the Auth error, and the session map is unchanged.
C7_UnknownStateRejected ==
    [][\A r \in Requests :
          (TakeStep(r) /\ ~Redeemable(StateOf(r), now))
          => /\ pc'[r] = "done"
             /\ req'[r].raised = Some(UnknownState)
             /\ sessions' = sessions]_vars

\* A callback carrying a state that was never stored has been refused.
C7_Witness ==
    \E r \in Requests :
       /\ pc[r] = "done"
       /\ req[r].raised = Some(UnknownState)
       /\ took[r].entry = "absent"
       /\ attempt[StateOf(r)].st = "none"

\* C8: a callback whose state is pending and unexpired passes take_pending; when
\* the exchange, the userinfo fetch and the identity extraction have succeeded,
\* its create_session step stores exactly one new session, under an id that was not
\* in the map, holding extract_identity(profile) and the fetched profile, and leaves
\* every other session as it was; the response redirects to the success URL and
\* sets the session cookie to the new id; current_session with that cookie
\* returns the snapshot of the new session.
C8_CallbackCreatesSession ==
    [][\A r \in Requests :
          /\ (/\ TakeStep(r)
              /\ StateOf(r) \in DOMAIN pending
              /\ now - pending[StateOf(r)].created_at <= PendingMaxAgeMinutes)
             => pc'[r] = "exchange"
          /\ CreateStep(r)
             => \E id \in DOMAIN sessions' \ DOMAIN sessions :
                   LET profile == CHOOSE p \in req[r].profile : TRUE IN
                   /\ DOMAIN sessions' = DOMAIN sessions \cup {id}
                   /\ \A other \in DOMAIN sessions : sessions'[other] = sessions[other]
                   /\ Some(sessions'[id].user) = extract_identity(profile)
                   /\ sessions'[id].raw_profile = profile
                   /\ resp'[r].status = 307
                   /\ resp'[r].location = Some(success_redirect)
                   /\ \E cookie \in resp'[r].set_cookie : cookie.value = id
                   /\ current_session(sessions', Some(id))
                         = JsonOk([user |-> sessions'[id].user,
                                   expires_at |-> sessions'[id].expires_at,
                                   profile |-> profile])]_vars

\* A callback has created a second session and answered with its cookie.
C8_Witness ==
    \E r \in Requests :
       /\ pc[r] = "done"
       /\ resp[r].location = Some(success_redirect)
       /\ Cardinality(DOMAIN sessions) = 2
       /\ \E cookie \in resp[r].set_cookie : cookie.value \in DOMAIN sessions

\* C9: once an error callback has carried a pending state, no later callback
\* carrying that state ends with a session created.
C9_NoSessionAfterProviderError ==
    \A r \in Requests :
       afterAbandon[r] => ~(pc[r] = "done" /\ resp[r].location = Some(success_redirect))

\* C10: every Auth error raised by the callback handler is answered with a
\* redirect to the failure URL when one is configured, and with the error
\* response only when none is configured.
C10_AuthErrorsUseFailureRedirect ==
    \A r \in Requests :
       (/\ pc[r] = "done"
        /\ req[r].handler = "callback"
        /\ \E error \in req[r].raised : error.kind = "Auth")
       => IF failure_redirect # None
          THEN resp[r].status = 307 /\ resp[r].location = failure_redirect
          ELSE resp[r].error = req[r].raised

\* The step of r is its whole current_session handler.
CurrentSessionStep(r) == pc[r] = "idle" /\ pc'[r] = "done" /\ req'[r].handler = "me"

\* C11: logout ends in 204 No Content whether its cookie is absent, names a
\* session that is not in the map, or names a live session; right after it
\* session_user_id and session_snapshot return nothing for the id of its cookie.
C11_LogoutAlwaysNoContent ==
    [][\A r \in Requests :
          LogoutStep(r)
          => /\ resp'[r].status = 204
             /\ resp'[r].error = None
             /\ resp'[r].location = None
             /\ \A id \in req'[r].jar :
                   /\ session_user_id(sessions', Some(id), now') = None
                   /\ session_snapshot(sessions', id) = None]_vars

\* One logout carried the cookie of a session that had been created, another
\* carried no cookie.
C11_Witness ==
    \E r1, r2 \in Requests :
       /\ pc[r1] = "done" /\ req[r1].handler = "logout"
       /\ pc[r2] = "done" /\ req[r2].handler = "logout"
       /\ req[r1].jar = Some("1") /\ nextSid >= 1 /\ "1" \notin DOMAIN sessions
       /\ req[r2].jar = None
       /\ resp[r1].status = 204 /\ resp[r2].status = 204

\* C12: every logout response sets the logout cookie (empty value, max-age 0),
\* also when the request named no session.
C12_LogoutAlwaysSetsLogoutCookie ==
    \A r \in Requests :
       (pc[r] = "done" /\ req[r].handler = "logout")
       => \E cookie \in resp[r].set_cookie : cookie.value = "" /\ cookie.max_age = 0

\* C13: current_session answers Unauthorized exactly when the cookie is absent or
\* its value is no key of the session map; otherwise it answers 200 with the
\* user, expires_at and raw profile stored under that key.
C13_CurrentSessionSnapshotOrUnauthorized ==
    [][\A r \in Requests :
          CurrentSessionStep(r)
          => LET jar == req'[r].jar IN
             IF jar = None \/ \A id \in jar : id \notin DOMAIN sessions
             THEN /\ resp'[r] = ErrorResponse(Unauthorized)
                  /\ resp'[r].status = 401
             ELSE \E id \in jar :
                     /\ resp'[r].status = 200
                     /\ resp'[r].error = None
                     /\ resp'[r].body = Some([user |-> sessions[id].user,
                                              expires_at |-> sessions[id].expires_at,
                                              profile |-> sessions[id].raw_profile])]_vars

\* One current_session request was answered with a snapshot, another, carrying
\* a cookie, with Unauthorized.
C13_Witness ==
    \E r1, r2 \in Requests :
       /\ pc[r1] = "done" /\ req[r1].handler = "me" /\ resp[r1].status = 200
       /\ \E snapshot \in resp[r1].body : snapshot.profile \in Profiles
       /\ pc[r2] = "done" /\ req[r2].handler = "me" /\ req[r2].jar # None
       /\ resp[r2].error = Some(Unauthorized)

\* The step of r is a whole order handler.
OrderStep(r) == pc[r] = "idle" /\ pc'[r] = "done" /\ req'[r].handler \in OrderHandlers

\* C14: on every order endpoint, a request whose cookie is absent, names no
\* session or names an expired session is answered 401 Unauthorized, never with
\* a redirect and never with another outcome.
C14_OrdersUnauthorizedWithoutSession ==
    [][\A r \in Requests :
          (OrderStep(r) /\ session_user_id(sessions, req'[r].jar, now) = None)
          => /\ resp'[r].status = 401
             /\ resp'[r].error = Some(Unauthorized)
             /\ resp'[r].location = None]_vars

\* The step is the first, or the second, block of cleanup_expired.
CleanupPendingStep == cleanupPc = "idle" /\ cleanupPc' = "sessions"
CleanupSessionsStep == cleanupPc = "sessions" /\ cleanupPc' = "idle"

\* C15: remove_session of an id that is no key of the map leaves the map as it
\* is and is no error; removing an id leaves every other session as it was;
\* removing the same id again changes nothing more.
C15_RemoveSessionIdempotent ==
    [][\A r \in Requests :
          LogoutStep(r)
          => \A id \in req'[r].jar :
                /\ id \notin DOMAIN sessions => sessions' = sessions
                /\ DOMAIN sessions' = DOMAIN sessions \ {id}
                /\ \A other \in DOMAIN sessions \ {id} : sessions'[other] = sessions[other]
                /\ remove_session(sessions', id) = sessions'
                /\ resp'[r].error = None]_vars

\* A logout named an id that was never a session while another session was in
\* the map.
C15_Witness ==
    \E r \in Requests :
       /\ pc[r] = "done" /\ req[r].handler = "logout"
       /\ req[r].jar = Some("2") /\ nextSid = 1
       /\ DOMAIN sessions = {"1"}

\* C16: the session block of cleanup_expired leaves no session whose expires_at
\* is in the past, and leaves every session without expiry and every session
\* whose expires_at is in the future in the map, unchanged.
C16_CleanupSweepsExpiredSessionsOnly ==
    [][CleanupSessionsStep
       => /\ \A id \in DOMAIN sessions' :
                ~(\E expires \in sessions'[id].expires_at : expires < now)
          /\ \A id \in DOMAIN sessions :
                (\/ sessions[id].expires_at = None
                 \/ \E expires \in sessions[id].expires_at : expires > now)
                => id \in DOMAIN sessions' /\ sessions'[id] = sessions[id]]_vars

\* A sweep has removed the first session and kept the second, which has no
\* expiry.
C16_Witness ==
    /\ cleanupPc = "idle"
    /\ nextSid = 2
    /\ DOMAIN sessions = {"2"}
    /\ sessions["2"].expires_at = None
    /\ \A r \in Requests : req[r].handler # "logout"

\* C17: the pending block of cleanup_expired leaves no entry older than 10
\* minutes, and leaves every entry of age at most 10 minutes in the map, unchanged.
C17_CleanupSweepsStalePendingOnly ==
    [][CleanupPendingStep
       => /\ \A s \in DOMAIN pending' :
                now - pending'[s].created_at <= PendingMaxAgeMinutes
          /\ \A s \in DOMAIN pending :
                now - pending[s].created_at <= PendingMaxAgeMinutes
                => s \in DOMAIN pending' /\ pending'[s] = pending[s]]_vars

\* A sweep has run at an instant when one entry was exactly 10 minutes old: that
\* entry is still there, and the older one is gone.
C17_Witness ==
    /\ cleanupPc = "sessions"
    /\ issued = 2
    /\ \E s \in States :
          /\ DOMAIN pending = {s}
          /\ now - pending[s].created_at = PendingMaxAgeMinutes
    /\ \A r \in Requests : pc[r] \in {"idle", "done"} /\ req[r].handler \in {"none", "login"}

ExchangeFailStep(r) == pc[r] = "exchange" /\ pc'[r] = "done"
ProfileFailStep(r) == pc[r] = "userinfo" /\ pc'[r] = "done"

\* C19: in the callback a failed code exchange raises an Auth error, a failed
\* userinfo fetch raises an Http error (status 500), which is no Auth error, and a
\* profile without identity raises the Auth error of the missing identity; none of
\* the three creates a session, redirects to the success URL or sets a session
\* cookie.
C19_ProviderFailuresByKind ==
    [][\A r \in Requests :
          /\ ExchangeFailStep(r)
             => \E error \in req'[r].raised : error.kind = "Auth"
          /\ ProfileFailStep(r)
             => \/ /\ \E error \in req'[r].raised :
                         error.kind = "Http" /\ error # missing_identity_error
                   /\ resp'[r].status = 500
                \/ req'[r].raised = Some(missing_identity_error)
          /\ (ExchangeFailStep(r) \/ ProfileFailStep(r))
             => /\ sessions' = sessions
                /\ resp'[r].location # Some(success_redirect)
                /\ \A cookie \in resp'[r].set_cookie : cookie.value = ""]_vars

\* One callback ended on a failed userinfo fetch, another on a profile without
\* identity.
C19_Witness ==
    \E r1, r2 \in Requests :
       /\ pc[r1] = "done" /\ \E error \in req[r1].raised : error.kind = "Http"
       /\ pc[r2] = "done" /\ req[r2].raised = Some(missing_identity_error)

\* The values under which a field bears an id: a string or a number.
IdBearing(opt) == {value \in opt : value.t \in {"str", "num"}}

\* The id-bearing field the id is to be taken from: `sub`, else `id`, else the
\* nested `user.id`.
ClaimedIdField(profile) ==
    IF IdBearing(JGet(profile, "sub")) # {}
    THEN IdBearing(JGet(profile, "sub"))
    ELSE IF IdBearing(JGet(profile, "id")) # {}
    THEN IdBearing(JGet(profile, "id"))
    ELSE IdBearing(JPointerUserId(profile))

\* C20: extract_identity takes the id from `sub`, else from `id`, else from
\* `user.id`, a string as it is and a number printed; it returns nothing only
\* when none of the three bears an id or the profile is null or empty.
\* {"id": 42} gives id "42" without name and email; {} and null give nothing.
C20_ExtractIdentityFindsId ==
    ret.done
    => LET profile == call.arg
           field == ClaimedIdField(profile)
       IN  /\ ret.value = None <=> field = {}
           /\ \A user \in ret.value :
                 \E value \in field :
                    user.id = IF value.t = "str" THEN value.v ELSE ToString(value.v)
           /\ profile = JObj({<<"id", JNum(42)>>})
                 => ret.value = Some([id |-> "42", name |-> None, email |-> None])
           /\ profile \in {JObj({}), JNull} => ret.value = None

\* The step of r is its whole start_login handler.
LoginStep(r) == pc[r] = "idle" /\ pc'[r] = "done" /\ req'[r].handler = "login"

\* The first of the three fields that holds a string, if any.
ClaimedName(profile) ==
    IF AsStr(JGet(profile, "name")) # {}
    THEN AsStr(JGet(profile, "name"))
    ELSE IF AsStr(JGet(profile, "preferred_username")) # {}
    THEN AsStr(JGet(profile, "preferred_username"))
    ELSE AsStr(JGet(profile, "login"))

\* C21: an identity returned by extract_identity has as name the string under
\* `name`, else under `preferred_username`, else under `login`, and no name when
\* none of them holds a string; as email the string under `email`, and no email
\* otherwise. {"sub": "abc123", "email": "a@b.com", "name": "A"} gives
\* id "abc123", email "a@b.com", name "A".
C21_ExtractIdentityNameAndEmail ==
    ret.done
    => LET profile == call.arg IN
       /\ \A user \in ret.value :
             /\ user.name = ClaimedName(profile)
             /\ user.email = AsStr(JGet(profile, "email"))
       /\ profile = JObj({<<"sub", JStr("abc123")>>, <<"email", JStr("a@b.com")>>,
                          <<"name", JStr("A")>>})
             => ret.value = Some([id |-> "abc123", name |-> Some("A"),
                                  email |-> Some("a@b.com")])

\* C23: the max-age of the session cookie a callback sets equals the lifetime
\* of the session it stored: the session has an expires_at, and expires_at
\* minus the time of creation is the cookie's max-age.
C23_CookieAndStoreShareOneTtl ==
    [][\A r \in Requests :
          CreateStep(r)
          => \E cookie \in resp'[r].set_cookie :
                /\ cookie.value \in DOMAIN sessions'
                /\ \E expires \in sessions'[cookie.value].expires_at :
                      (expires - now) * 60 = cookie.max_age]_vars

\* C25: after take_pending(s), whether it returned the pair, met a stale entry
\* or met no entry, the pending map has no entry for s and every other entry is
\* as it was.
C25_TakeLeavesNothingBehind ==
    [][\A r \in Requests :
          TakeStep(r)
          => /\ StateOf(r) \notin DOMAIN pending'
             /\ DOMAIN pending' = DOMAIN pending \ {StateOf(r)}
             /\ \A s \in DOMAIN pending' : pending'[s] = pending[s]]_vars

\* A take has met a stale entry and refused it; the entry is gone and the entry
\* of the other state is still there.
C25_Witness ==
    \E r \in Requests :
       /\ pc[r] = "done" /\ req[r].raised = Some(UnknownState)
       /\ now = 2 * TickMinutes
       /\ issued = 2
       /\ \E s \in States : DOMAIN pending = {s} /\ req[r].state # Some(s)
       /\ \A other \in Requests \ {r} : req[other].handler \in {"none", "login"}
       /\ cleanupPc = "idle"

\* C26: session_snapshot returns the stored identity, expires_at and raw profile
\* of every session that is in the map, also of one whose expires_at has
\* passed, and current_session, which calls it, leaves the map as it is.
C26_SnapshotIgnoresExpiry ==
    [][/\ \A id \in DOMAIN sessions :
             session_snapshot(sessions, id)
                = Some([user |-> sessions[id].user,
                        expires_at |-> sessions[id].expires_at,
                        profile |-> sessions[id].raw_profile])
       /\ \A r \in Requests :
             CurrentSessionStep(r)
             => /\ sessions' = sessions
                /\ \A id \in req'[r].jar :
                      (id \in DOMAIN sessions /\ Expired(id))
                      => /\ resp'[r].status = 200
                         /\ \E snapshot \in resp'[r].body :
                               snapshot.expires_at = sessions[id].expires_at]_vars

\* A current_session request was answered with the snapshot of a session that
\* is in the map with its expires_at in the past.
C26_Witness ==
    \E r \in Requests :
       /\ pc[r] = "done" /\ req[r].handler = "me" /\ resp[r].status = 200
       /\ \E id \in req[r].jar :
             /\ id \in DOMAIN sessions
             /\ Expired(id)
             /\ \E snapshot \in resp[r].body :
                   snapshot.expires_at = sessions[id].expires_at

\* C27: store_pending on a state that is pending replaces its entry: the map
\* holds one entry for the state, with the new verifier and nonce and the
\* created_at of this call; the other entries are as they were; take_pending
\* at once returns the new pair.
C27_StoreReplacesPending ==
    [][\A r \in Requests, s \in States :
          (LoginStep(r) /\ req'[r].state = Some(s) /\ s \in DOMAIN pending)
          => LET k == issued' IN
             /\ DOMAIN pending' = DOMAIN pending
             /\ pending'[s] = [verifier |-> <<"verifier", k>>, nonce |-> <<"nonce", k>>,
                               created_at |-> now]
             /\ pending'[s].verifier # pending[s].verifier
             /\ \A other \in DOMAIN pending \ {s} : pending'[other] = pending[other]
             /\ take_pending(pending', s, now)
                   = Some(<<(<<"verifier", k>>), (<<"nonce", k>>)>>)]_vars

\* Two logins have stored the same state, the second after the clock advanced:
\* the one entry is the second login's.
C27_Witness ==
    \E r1, r2 \in Requests, s \in States :
       /\ r1 # r2
       /\ pc[r1] = "done" /\ req[r1].handler = "login" /\ req[r1].state = Some(s)
       /\ pc[r2] = "done" /\ req[r2].handler = "login" /\ req[r2].state = Some(s)
       /\ DOMAIN pending = {s}
       /\ pending[s].verifier = <<"verifier", 2>>
       /\ pending[s].created_at = TickMinutes

\* C30: when start_login returns its redirect, the pending map holds an entry
\* under the state carried in the redirect's URL, with the verifier and nonce
\* generated for this login.
C30_LoginStoresBeforeResponding ==
    [][\A r \in Requests :
          LoginStep(r)
          => \E s \in req'[r].state :
                /\ resp'[r].status = 307
                /\ resp'[r].location = Some("/authorize?state=" \o s)
                /\ s \in DOMAIN pending'
                /\ pending'[s].verifier = <<"verifier", issued'>>
                /\ pending'[s].nonce = <<"nonce", issued'>>
                /\ issued' = issued + 1
                /\ pending'[s].created_at = now]_vars

\* A login has answered with its redirect and its entry is in the map.
C30_Witness ==
    \E r \in Requests, s \in States :
       /\ pc[r] = "done" /\ req[r].handler = "login"
       /\ resp[r].location = Some("/authorize?state=" \o s)
       /\ s \in DOMAIN pending
       /\ pending[s].verifier = <<"verifier", issued>>


\* C22: the cookie build_cookie returns has the given session id as its value,
\* path "/", HttpOnly, SameSite=Lax, and as max-age the configured TTL in
\* seconds, or 3600 when the configured TTL is negative; it has Secure exactly
\* when cookie_secure is set, and the configured domain exactly when one is
\* configured.
C22_BuildCookieAttributes ==
    (ret.done /\ call.fn = "build_cookie")
    => LET config == call.arg.config IN
       \E cookie \in ret.value :
          /\ cookie.value = call.arg.session_id
          /\ cookie.path = "/"
          /\ cookie.http_only
          /\ cookie.same_site = "Lax"
          /\ cookie.max_age = IF config.ttl < 0 THEN 3600 ELSE config.ttl
          /\ cookie.secure <=> config.cookie_secure
          /\ cookie.domain = config.cookie_domain

\* build_cookie has returned for a negative TTL, a domain and Secure off.
C22_Witness ==
    /\ ret.done /\ call.fn = "build_cookie"
    /\ call.arg.config.ttl < 0
    /\ call.arg.config.cookie_domain # None
    /\ ~call.arg.config.cookie_secure
    /\ \E cookie \in ret.value :
          cookie.max_age = 3600 /\ cookie.domain = Some("example.com") /\ ~cookie.secure


\* The last instant of the clock.
Horizon == MaxTicks * TickMinutes

\* The entry of login k is pending under s.
PendingOf(s, k) == s \in DOMAIN pending /\ pending[s].verifier = <<"verifier", k>>

\* C29: with the clock advancing and the cleanup task running again and again,
\* every pending entry that grows older than 10 minutes is eventually out of
\* the pending map, redeemed or not, and every session whose expires_at comes
\* is eventually out of the session map, logged out or not.
C29_CleanupEventuallyRemoves ==
    /\ \A s \in States, k \in 1..MaxLogins :
          (PendingOf(s, k) /\ pending[s].created_at + PendingMaxAgeMinutes < Horizon)
             ~> ~PendingOf(s, k)
    /\ \A id \in {new_session_id(n) : n \in 0..(MaxSessions - 1)} :
          (id \in DOMAIN sessions /\ \E expires \in sessions[id].expires_at : expires <= Horizon)
             ~> id \notin DOMAIN sessions

\* A session with an expires_at that nobody logged out is out of the map, and
\* so is every pending entry, of which one at least was not redeemed.
C29_Witness ==
    /\ \E id \in DOMAIN created : created[id].deadline # None /\ id \notin DOMAIN sessions
    /\ issued = 2 /\ nextSid = 1
    /\ pending = EmptyMap
    /\ now = Horizon


\* The caller of r's order request, and the order it addresses.
CallerOf(r) == session_user_id(sessions, req'[r].jar, now)
InputOf(r) == CHOOSE input \in req'[r].input : TRUE
ForeignOrder(r) ==
    /\ req'[r].handler \in {"get_order", "update_order", "delete_order"}
    /\ \E id \in InputOf(r).id :
          id \in DOMAIN orders /\ CallerOf(r) # None /\ Some(orders[id].user_id) # CallerOf(r)

\* C24: a get, update or delete with a valid payload, by a caller with a
\* session, on an order whose userId is not the caller's id, ends in NotFound
\* unless the database call fails, and leaves the collection as it is; a list
\* returns only orders whose userId is the caller's id.
C24_OrdersScopedPerUser ==
    [][\A r \in Requests :
          OrderStep(r)
          => /\ (ForeignOrder(r) /\ InputOf(r).valid
                    /\ resp'[r].error # Some(DatabaseError))
                => (resp'[r].error = Some(NotFound) /\ orders' = orders)
             /\ (req'[r].handler = "list_orders" /\ resp'[r].status = 200)
                => \A listed \in resp'[r].body :
                      \A order \in listed : Some(order.user_id) = CallerOf(r)]_vars


\* The step of r calls the provider: exchange_code or fetch_userinfo returns.
ProviderStep(r) == pc[r] \in {"exchange", "userinfo"} /\ pc'[r] # pc[r]

\* C28: a request that is inside exchange_code or fetch_userinfo holds no guard
\* of the pending lock or of the session lock: the take_pending step of a
\* callback ends with its guard dropped, the provider steps run and end without
\* a guard, and the guard of the session lock is taken only once the request
\* stands at create_session.
C28_NoProviderCallUnderLock ==
    [][\A r \in Requests :
          /\ pc[r] \in {"exchange", "userinfo"} => HoldsNothing(r)
          /\ TakeStep(r) => (Holds(r, "pending") /\ (HoldsNothing(r))')
          /\ ProviderStep(r) => (HoldsNothing(r) /\ (HoldsNothing(r))')
          /\ (pc[r] \notin {"idle", "create"} /\ pc'[r] \notin {"idle", "create"})
                => (~Holds(r, "sessions"))']_vars

\* A callback is inside exchange_code without a guard while the other request
\* holds the write guard of the pending lock and the cleanup task has the one
\* of the session lock.
C28_Witness ==
    \E r \in Requests, other \in Requests :
       /\ other # r
       /\ pc[r] = "exchange" /\ HoldsNothing(r)
       /\ <<other, "write">> \in holds["pending"]
       /\ <<"cleanup", "write">> \in holds["sessions"]

\* C31: a step changes no session that is in the map before and after it: its
\* identity, expires_at and raw profile stay; a session leaves the map only in
\* a logout or in the session block of cleanup_expired; create_session adds one
\* key that was not in the map and leaves the others.
C31_StoredSessionNeverMutated ==
    [][/\ \A id \in DOMAIN sessions \cap DOMAIN sessions' : sessions'[id] = sessions[id]
       /\ DOMAIN sessions \ DOMAIN sessions' # {}
             => (CleanupSessionsStep \/ \E r \in Requests : LogoutStep(r))
       /\ \A r \in Requests :
             CreateStep(r)
             => /\ DOMAIN sessions \subseteq DOMAIN sessions'
                /\ Cardinality(DOMAIN sessions' \ DOMAIN sessions) = 1]_vars

\* Two sessions created at different instants with different expiries are both
\* in the map.
C31_Witness ==
    /\ DOMAIN sessions = {"1", "2"}
    /\ sessions["1"].expires_at = Some(TickMinutes)
    /\ sessions["2"].expires_at = None
    /\ now = Horizon

C35_CleanupAgreesWithSessionUserId ==
    [][CleanupSessionsStep
          => \A id \in DOMAIN sessions \ DOMAIN sessions' :
                session_user_id(sessions, Some(id), now) = None]_vars

\* C36: the pending block of cleanup_expired removes an entry only if
\* take_pending returns nothing for it at that instant; an entry that is exactly
\* 10 minutes old stays in the map and take_pending returns its pair.
C36_CleanupAgreesWithTakePending ==
    [][CleanupPendingStep
          => /\ \A s \in DOMAIN pending \ DOMAIN pending' :
                   take_pending(pending, s, now) = None
             /\ \A s \in DOMAIN pending :
                   now - pending[s].created_at = PendingMaxAgeMinutes
                   => /\ s \in DOMAIN pending'
                      /\ take_pending(pending', s, now) # None]_vars

\* The pending block of the sweep has run, and an entry that is exactly 10
\* minutes old is pending and can be taken.
C36_Witness ==
    /\ cleanupPc = "sessions"
    /\ \E s \in DOMAIN pending :
          /\ now - pending[s].created_at = PendingMaxAgeMinutes
          /\ take_pending(pending, s, now) # None

\* C37: when a callback fails in the exchange, in the userinfo fetch or for a
\* missing identity, the pending map is left as it is, and as long as no new
\* login stored the state, the state has no entry; a callback that then arrives
\* with the state ends in the Auth error of the unknown or expired state.
C37_FailedCallbackLeavesStateConsumed ==
    [][\A r \in Requests :
          /\ (ExchangeFailStep(r) \/ ProfileFailStep(r))
             => /\ pending' = pending
                /\ attempt[StateOf(r)].st = "taken"
                      => /\ StateOf(r) \notin DOMAIN pending'
                         /\ take_pending(pending', StateOf(r), now) = None
          /\ (TakeStep(r) /\ attempt[StateOf(r)].st = "taken")
             => /\ pc'[r] = "done"
                /\ req'[r].raised = Some(UnknownState)]_vars

\* A callback failed after its take, and the retry with the same state was
\* refused for an entry that was not there.
C37_Witness ==
    \E failed, retry \in Requests :
       /\ failed # retry
       /\ pc[failed] = "done" /\ pc[retry] = "done"
       /\ req[failed].state = req[retry].state
       /\ \E error \in req[failed].raised : error # UnknownState
       /\ took[failed].got
       /\ req[retry].raised = Some(UnknownState)
       /\ took[retry].entry = "absent"
       /\ attempt[StateOf(retry)].st = "taken"


\* C34: the callbacks that carry a state create at most as many sessions as
\* start_login stored the state: a state stored once yields at most one
\* session, however many callbacks carry it and however they interleave.
C34_OneSessionPerIssuedState ==
    \A s \in States :
       /\ yielded[s].sessions <= yielded[s].stored
       /\ yielded[s].stored = 1 => yielded[s].sessions <= 1

\* A state was stored once and two callbacks carried it: one created the
\* session, the other was refused.
C34_Witness ==
    \E s \in States, winner, loser \in Requests :
       /\ winner # loser
       /\ yielded[s] = [stored |-> 1, sessions |-> 1]
       /\ req[winner].state = Some(s) /\ req[loser].state = Some(s)
       /\ pc[winner] = "done" /\ resp[winner].set_cookie # None
       /\ resp[winner].location = Some(success_redirect)
       /\ pc[loser] = "done" /\ req[loser].raised = Some(UnknownState)


\* C38: every call an order endpoint makes on the orders collection is made
\* after session_user_id returned an id for the cookie of the request, and
\* carries that id as the userId of the document or of the filter: a request
\* without such an id makes no call and changes nothing, and a request with
\* one inserts, changes and removes only documents with that userId.
C38_OrderStoreCallsCarrySessionUser ==
    [][\A r \in Requests :
          OrderStep(r)
          => /\ \A op \in req'[r].calls : Some(op.user_id) = CallerOf(r)
             /\ CallerOf(r) = None => (req'[r].calls = {} /\ orders' = orders)
             /\ orders' # orders => req'[r].calls # {}
             /\ \A id \in DOMAIN orders' \ DOMAIN orders :
                   Some(orders'[id].user_id) = CallerOf(r)
             /\ \A id \in DOMAIN orders :
                   (id \notin DOMAIN orders' \/ orders'[id] # orders[id])
                   => Some(orders[id].user_id) = CallerOf(r)]_vars

\* User 7 has created an order: the insert carried the id of the session, and
\* so does the document in the collection.
C38_Witness ==
    \E r \in Requests :
       /\ pc[r] = "done" /\ req[r].handler = "create_order" /\ resp[r].status = 201
       /\ req[r].jar = Some("2")
       /\ \E op \in req[r].calls :
             /\ op.user_id = "7"
             /\ \E id \in op.id : id \in DOMAIN orders /\ orders[id].user_id = "7"


\* C39: no task holds a guard of the pending lock and a guard of the session
\* lock at once; every guard that is held is dropped in the end (at all times
\* there is a later instant at which the task does not hold it), and a callback
\* that waits for a guard at take_pending or create_session, or a run of
\* cleanup_expired that waits for the session lock, gets past it.
C39_NeverBothLocksNoDeadlock ==
    /\ [](\A p \in Tasks : ~(Holds(p, "pending") /\ Holds(p, "sessions")))
    /\ \A p \in Tasks, l \in Locks : []<>(~Holds(p, l))
    /\ \A r \in Requests : []<>(pc[r] # "take") /\ []<>(pc[r] # "create")
    /\ []<>(cleanupPc = "idle")

\* The cleanup task holds the write guard of the session lock, having dropped
\* the one of the pending lock, which a request holds, while the other request
\* waits at create_session.
C39_Witness ==
    \E r \in Requests, other \in Requests :
       /\ other # r
       /\ <<"cleanup", "write">> \in holds["sessions"]
       /\ ~Holds("cleanup", "pending")
       /\ <<r, "write">> \in holds["pending"]
       /\ pc[other] = "create" /\ HoldsNothing(other)


\* C33: a call of get_key returns a key without fetching exactly when, at its
\* look into the cache, the cache is there, was fetched less than one hour
\* before and holds the kid, and then it returns the cached key of that kid;
\* otherwise it goes on to fetch. After a fetch that succeeded it replaces the
\* cache by the fetched keys, stamped with the instant of the replacement, and
\* answers with the fetched key of the kid or "Key not found in JWKS". A fetch
\* that failed ends the call with the error. A call writes the cache at no
\* other step: the look into the cache and the fetch, failed or not, leave it
\* as it is.
C33_GetKeyCacheOrFetch ==
    [][\A v \in Verifications :
          LET before == getKey[v]
              after == getKey'[v]
          IN  /\ (before.pc = "idle" /\ after.pc # "idle") =>
                    /\ cache' = cache
                    /\ IF /\ cache # None
                          /\ \E cached \in cache :
                                /\ instant - cached.fetched_at < CacheValidSecs
                                /\ after.kid \in DOMAIN cached.keys
                       THEN /\ after.pc = "done"
                            /\ ~after.fetched
                            /\ \E cached \in cache : after.result = Ok(cached.keys[after.kid])
                       ELSE after.pc = "fetch"
              /\ (before.pc = "fetch" /\ after.pc # "fetch") =>
                    /\ cache' = cache
                    /\ after.fetched
                    /\ \/ after.pc = "update"
                       \/ after.pc = "done" /\ ~after.result.ok
              /\ (before.pc = "update" /\ after.pc # "update") =>
                    /\ cache' = Some(JwksCache(before.keys, instant))
                    /\ after.pc = "done"
                    /\ after.fetched
                    /\ after.result = IF before.kid \in DOMAIN before.keys
                                      THEN Ok(before.keys[before.kid])
                                      ELSE Err("Key not found in JWKS")
              /\ (after.pc = "done" /\ before.pc # "done" /\ ~after.fetched) =>
                    before.pc = "idle"
      ]_vars

\* One call has been answered from a cache that was replaced after the first
\* hour, while the other call, for a kid the cache lacks, has fetched in vain
\* and left that cache in place.
C33_Witness ==
    \E v \in Verifications, w \in Verifications :
       /\ v # w
       /\ getKey[v].pc = "done" /\ ~getKey[v].fetched /\ getKey[v].result.ok
       /\ getKey[w].pc = "done" /\ getKey[w].fetched /\ ~getKey[w].result.ok
       /\ getKey[w].result.error # "Key not found in JWKS"
       /\ \E cached \in cache :
             /\ cached.fetched_at >= CacheValidSecs
             /\ getKey[w].kid \notin DOMAIN cached.keys
             /\ getKey[v].kid \in DOMAIN cached.keys
             /\ getKey[v].result = Ok(cached.keys[getKey[v].kid])

=============================================================================
